---- MODULE Spec2Model ----
(***************************************************************************)
(* Verification model of the web_components repository: the counter        *)
(* widget (counterComponent.js) and the todo list, theme toggle and        *)
(* theme-aware icon loader (iconThemeAware.js).                            *)
(*                                                                         *)
(* Each widget is a state machine over the fields of its custom elements   *)
(* and the DOM attributes / text they render.  One action models one       *)
(* event-loop task (a lifecycle callback, a listener, the continuation of  *)
(* an awaited promise), run to completion.  Strings that the code formats  *)
(* or parses are sequences of one-character strings.                       *)
(***************************************************************************)
EXTENDS Integers, Sequences, FiniteSets

\* ------------------------------------------------------------------------
\* Bounds of the model
\* ------------------------------------------------------------------------
MaxClicks == 7      \* increment / decrement clicks of each kind (counter)
MaxItems == 3       \* todo-item elements in the rendered list
MaxClock == 2       \* largest Date.now() reading
MaxUnderflow == 1   \* how far below zero the todo count may be driven
NumToggles == 3     \* toggle-theme instances on the page
MaxHydrations == 2  \* hydrate() calls of the icon loader in flight at once
MaxMenuConnects == 3 \* times the hamburger-menu is put into the document
MaxLeafClicks == 2   \* clicks on each leaf control

\* ------------------------------------------------------------------------
\* Strings: decimal formatting and parsing as the JS runtime does them
\* ------------------------------------------------------------------------
Digits == <<"0", "1", "2", "3", "4", "5", "6", "7", "8", "9">>

DigitValue(c) == CHOOSE d \in 0..9 : Digits[d + 1] = c

IsDigit(c) == \E d \in 0..9 : Digits[d + 1] = c

IsSpace(c) == c = " "

RECURSIVE NatToString(_)
NatToString(n) ==
    IF n < 10 THEN <<Digits[n + 1]>>
    ELSE NatToString(n \div 10) \o <<Digits[(n % 10) + 1]>>

\* String(n) / n.toString() of an integer-valued number
ToString(n) == IF n < 0 THEN <<"-">> \o NatToString(-n) ELSE NatToString(n)

RECURSIVE TrimStart(_)
TrimStart(s) ==
    IF s # <<>> /\ IsSpace(Head(s)) THEN TrimStart(Tail(s)) ELSE s

RECURSIVE TrimEnd(_)
TrimEnd(s) ==
    IF s # <<>> /\ IsSpace(s[Len(s)]) THEN TrimEnd(SubSeq(s, 1, Len(s) - 1)) ELSE s

\* String.prototype.trim
Trim(s) == TrimEnd(TrimStart(s))

RECURSIVE DigitPrefix(_, _)
\* value of the longest prefix of digits of s, continuing from acc
DigitPrefix(s, acc) ==
    IF s # <<>> /\ IsDigit(Head(s))
    THEN DigitPrefix(Tail(s), 10 * acc + DigitValue(Head(s)))
    ELSE acc

\* a JS number: an integer, or NaN
Num(n) == [nan |-> FALSE, val |-> n]

NaN == [nan |-> TRUE, val |-> 0]

\* parseInt(s, 10): leading white space, optional sign, longest digit prefix
ParseInt(s) ==
    LET t == TrimStart(s)
        neg == t # <<>> /\ Head(t) = "-"
        u == IF t # <<>> /\ Head(t) \in {"-", "+"} THEN Tail(t) ELSE t
    IN IF u = <<>> \/ ~IsDigit(Head(u)) THEN NaN
       ELSE IF neg THEN Num(0 - DigitPrefix(u, 0)) ELSE Num(DigitPrefix(u, 0))

\* x + k on a number that may be NaN (NaN is absorbing)
NumPlus(x, k) == IF x.nan THEN NaN ELSE Num(x.val + k)

\* String(x) of a number that may be NaN
NumToString(x) == IF x.nan THEN <<"N", "a", "N">> ELSE ToString(x.val)

VARIABLES
    \* ---- counter-component (counterComponent.js) ----
    cConnected,   \* counter-component is in the document
    count,        \* CounterRoot.count
    totalAttr,    \* count-total's "count" attribute (empty before first render)
    totalText,    \* text of the <span> rendered by count-total
    nInc,         \* increment events delivered so far
    nDec,         \* decrement events delivered so far
    \* ---- todo-component ----
    tdConnected,   \* todo-component is in the document
    list,          \* todo-item elements of todo-list, in document order
    todoItems,     \* todo-component.todoItems (the id attribute of each element)
    countText,     \* textContent of todo-count's <div>
    formListeners, \* submit listeners on todo-input's current <form>
    now,           \* Date.now()
    last,          \* the last todo operation, with the state it started from
    \* ---- document theme, toggle-theme, icon-theme-aware ----
    theme,         \* data-theme of <html>: "absent", "light" or "dark"
    rewrite,       \* the queued record is of a write of the value already there
    prefersDark,   \* matchMedia("(prefers-color-scheme: dark)").matches
    tgConnected,   \* per toggle-theme: in the document
    sunActive,     \* per toggle-theme: data-active of its icon-sun
    moonActive,    \* per toggle-theme: data-active of its icon-moon
    sunClass,      \* per toggle-theme: #icon-sun carries the class "active"
    moonClass,     \* per toggle-theme: #icon-moon carries the class "active"
    iconPending,   \* toggles whose icons have mutation records queued
    ldConnected,   \* icon-theme-aware is in the document
    hyd,           \* hydrate() calls in flight: how many wait at each await
    hydrated,      \* some hydrate() call has run to its end
    currentTheme,  \* this.currentTheme
    iconLight,     \* this.iconLight: "undefined", "null" or "blob"
    iconDark,      \* this.iconDark
    cache,         \* URIs with an entry in the named cache store
    display,       \* children of #icon-container: "empty", "light" or "dark"
    observer,      \* this.observer: "null", "observing" or "disconnected"
    watchers,      \* observers of this instance subscribed on <html>
    pending,       \* a mutation record awaits delivery to this instance
    srcs,          \* variants whose data-src-* attribute is present
    rejected,      \* some hydrate() call has ended by throwing
    lookupHits,    \* per await: suspended calls whose own lookup was a hit
    imgSerial,     \* which <img> is displayed (a new element per insert)
    \* ---- hamburger-menu, hamburger-icon, hamburger-nav ----
    hmConnected,   \* hamburger-menu is in the document
    rendered,      \* HamburgerMenu.rendered
    dataLinks,     \* the data-links attribute of hamburger-menu
    hmIconActive,  \* data-active of hamburger-icon ("absent" before render)
    hmNavActive,   \* data-active of hamburger-nav
    iconListeners, \* click listeners the menu has added to hamburger-icon
    navLinks,      \* #hm-nav-link anchors in hamburger-nav's subtree
    linkListeners, \* click listeners the menu has added to each such anchor
    navRendered,   \* hamburger-nav holds its <style> and <nav> children
    hmErrors,      \* exceptions that left a hamburger callback uncaught
    hmIconClass,   \* #hm-icon-container carries the class "active"
    hmNavClass,    \* the <ul> of hamburger-nav carries the class "active"
    hmPending,     \* mutation records await delivery to the two observers
    hmLast,        \* the last hamburger operation, with the state before it
    \* ---- leaf controls (the two counter buttons, the two icons, a todo-item) ----
    leafConnected,   \* per leaf: in the document
    buttonListeners, \* per leaf: click listeners on its current inner element
    itemId,          \* the id attribute of the todo-item (<<>> before it is created)
    leafClicks,      \* per leaf: clicks on its inner element so far
    leafEvents,      \* per leaf: the events it has dispatched, in order
    \* ---- two icon-theme-aware instances with one cache name and one pair of URIs ----
    pairAt,        \* per instance: "idle", the await its hydrate() waits at, or "ready"
    pairLight,     \* per instance: this.iconLight
    pairDark,      \* per instance: this.iconDark
    entries,       \* per URI: the entries of the named cache, each tagged with its writer
    reachable,     \* URIs that the network serves and the cache accepts
    \* ---- the dimensions of an icon-theme-aware ----
    heightAttr,    \* its data-height attribute: present or not, and its text
    widthAttr,     \* its data-width attribute
    iconHeight,    \* this.iconHeight: undefined, or a number that may be NaN
    iconWidth,     \* this.iconWidth
    dimCheck       \* hydrate()'s typeof checks: "pending", "passed" or "thrown"

counterVars == <<cConnected, count, totalAttr, totalText, nInc, nDec>>

todoVars == <<tdConnected, list, todoItems, countText, formListeners, now, last>>

toggleVars == <<tgConnected, sunActive, moonActive, sunClass, moonClass,
                iconPending>>

loaderVars == <<ldConnected, hyd, hydrated, currentTheme, iconLight, iconDark,
                cache, display, observer, watchers, pending, srcs, rejected,
                lookupHits, imgSerial>>

themeVars == <<theme, rewrite, prefersDark, toggleVars, loaderVars>>

menuVars == <<hmConnected, rendered, dataLinks, hmIconActive, hmNavActive,
              iconListeners, navLinks, linkListeners, navRendered, hmErrors,
              hmIconClass, hmNavClass, hmPending, hmLast>>

leafVars ==
    <<leafConnected, buttonListeners, itemId, leafClicks, leafEvents>>

pairVars == <<pairAt, pairLight, pairDark, entries, reachable>>

dimVars == <<heightAttr, widthAttr, iconHeight, iconWidth, dimCheck>>

vars ==
    <<counterVars, todoVars, themeVars, menuVars, leafVars, pairVars, dimVars>>

\* ========================================================================
\* counter-component
\* ========================================================================

\* CountTotal.render: the span shows the attribute as it is
CountTotalRender(attr) == attr

\* CounterRoot.update, with the attributeChangedCallback it triggers
CounterUpdate(c) ==
    /\ totalAttr' = ToString(c)
    /\ totalText' = CountTotalRender(ToString(c))

CounterInit ==
    /\ cConnected = FALSE
    /\ count = 0
    /\ totalAttr = <<>>
    /\ totalText = <<>>
    /\ nInc = 0
    /\ nDec = 0

\* CounterRoot.connectedCallback: render (count-total created with the
\* current count) and hydrate
CounterConnect ==
    /\ ~cConnected
    /\ cConnected' = TRUE
    /\ CounterUpdate(count)
    /\ UNCHANGED <<count, nInc, nDec>>
    /\ UNCHANGED <<todoVars, themeVars, menuVars, leafVars, pairVars,
                   dimVars>>

\* the element is taken out of the document (no disconnectedCallback)
CounterRemove ==
    /\ cConnected
    /\ cConnected' = FALSE
    /\ UNCHANGED <<count, totalAttr, totalText, nInc, nDec>>
    /\ UNCHANGED <<todoVars, themeVars, menuVars, leafVars, pairVars,
                   dimVars>>

\* CounterHandle with the decrement case lost
CounterHandleNoDecrement(kind) ==
    /\ count' = (CASE kind = "increment" -> count + 1
                   [] OTHER -> count)
    /\ CounterUpdate(count')

\* CounterRoot.handleEvent for a known kind, then update()
CounterHandle(kind) ==
    /\ count' = (CASE kind = "increment" -> count + 1
                   [] kind = "decrement" -> count - 1
                   [] OTHER -> count)
    /\ CounterUpdate(count')

\* click on counter-increment's button
Increment ==
    /\ cConnected
    /\ nInc < MaxClicks
    /\ nInc' = nInc + 1
    /\ CounterHandle("increment")
    /\ UNCHANGED <<cConnected, nDec>>
    /\ UNCHANGED <<todoVars, themeVars, menuVars, leafVars, pairVars,
                   dimVars>>

\* click on counter-decrement's button
Decrement ==
    /\ cConnected
    /\ nDec < MaxClicks
    /\ nDec' = nDec + 1
    /\ CounterHandle("decrement")
    /\ UNCHANGED <<cConnected, nInc>>
    /\ UNCHANGED <<todoVars, themeVars, menuVars, leafVars, pairVars,
                   dimVars>>

CounterNext ==
    \/ CounterConnect
    \/ CounterRemove
    \/ Increment
    \/ Decrement

\* ========================================================================
\* todo-component, todo-input, todo-list, todo-item, todo-count
\* ========================================================================

\* what the user may have typed into the input when the form is submitted:
\* nothing, white space only, a word, a word with white space around it
Texts == {<<>>, <<" ", " ">>, <<"a">>, <<" ", "a", " ">>}

\* identifiers an event payload may carry
Ids == {ToString(n) : n \in 0..MaxClock}

\* querySelector(`todo-item[id="${id}"]`): position of the first match, 0 if none
FirstIndex(l, id) ==
    IF \E i \in 1..Len(l) : l[i].id = id
    THEN CHOOSE i \in 1..Len(l) :
            /\ l[i].id = id
            /\ \A j \in 1..(i - 1) : l[j].id # id
    ELSE 0

\* Element.remove() of the element at position i
RemoveAt(l, i) == SubSeq(l, 1, i - 1) \o SubSeq(l, i + 1, Len(l))

\* Array.prototype.filter keeping the ids different from id
RECURSIVE FilterOut(_, _)
FilterOut(ids, id) ==
    IF ids = <<>> THEN <<>>
    ELSE IF Head(ids) = id THEN FilterOut(Tail(ids), id)
    ELSE <<Head(ids)>> \o FilterOut(Tail(ids), id)

\* todo-list.createListItem: a new todo-item at the end of the <ul>; its
\* connectedCallback renders it and hooks its delete button
CreateListItem(s, text, id) ==
    [s EXCEPT !.list = Append(@, [id |-> id, text |-> text, listener |-> FALSE])]

\* todo-component.appendTodoItem: the first element with that id gets the
\* root as its todo-item-delete listener and is pushed onto todoItems
AppendTodoItem(s, id) ==
    LET i == FirstIndex(s.list, id)
    IN IF i = 0 THEN s
       ELSE [s EXCEPT !.list[i].listener = TRUE, !.todoItems = Append(@, id)]

\* InputUpdate that hydrates again without rendering a new form
InputUpdateNoRender(s) == [s EXCEPT !.formListeners = @ + 1]

\* todo-input.update: render() replaces the form (no listeners left),
\* hydrate() adds one submit listener to the new form
InputUpdate(s) == [s EXCEPT !.formListeners = 0 + 1]

\* todo-count.incrementCount
IncrementCount(s) ==
    [s EXCEPT !.countText = NumToString(NumPlus(ParseInt(@), 1))]

\* todo-count.decrementCount
DecrementCount(s) ==
    [s EXCEPT !.countText = NumToString(NumPlus(ParseInt(@), -1))]

\* todo-list.deleteListItem
DeleteListItem(s, id) ==
    LET i == FirstIndex(s.list, id)
    IN IF i = 0 THEN s ELSE [s EXCEPT !.list = RemoveAt(@, i)]

\* todo-component.removeTodoItem
RemoveTodoItem(s, id) == [s EXCEPT !.todoItems = FilterOut(@, id)]

\* todo-component.handleEvent, case "todo-input-submit"
HandleSubmit(s, text, id) ==
    IncrementCount(InputUpdate(AppendTodoItem(CreateListItem(s, text, id), id)))

\* todo-component.handleEvent, case "todo-item-delete"
HandleDelete(s, id) ==
    DecrementCount(RemoveTodoItem(DeleteListItem(s, id), id))

\* TodoHandleEvent with the delete case as the default of the switch
TodoHandleEventDefaultDelete(s, type, text, id) ==
    IF type = "todo-input-submit" THEN HandleSubmit(s, text, id)
    ELSE HandleDelete(s, id)

\* todo-component.handleEvent: a switch on the event type without default
TodoHandleEvent(s, type, text, id) ==
    IF type = "todo-input-submit" THEN HandleSubmit(s, text, id)
    ELSE IF type = "todo-item-delete" THEN HandleDelete(s, id)
    ELSE s

\* SubmitListener that tests the untrimmed text for emptiness
SubmitListenerUntrimmed(s, text, clock) ==
    IF text = <<>> THEN s
    ELSE HandleSubmit([s EXCEPT !.emitted = @ + 1], Trim(text), ToString(clock))

\* one run of todo-input's submit listener on the submitted form
SubmitListener(s, text, clock) ==
    LET value == Trim(text)
        id == ToString(clock)
    IN IF value = <<>> THEN s
       ELSE HandleSubmit([s EXCEPT !.emitted = @ + 1], value, id)

\* the submit event runs every listener registered on the submitted form
RECURSIVE RunSubmitListeners(_, _, _, _)
RunSubmitListeners(s, k, text, clock) ==
    IF k = 0 THEN s
    ELSE RunSubmitListeners(SubmitListener(s, text, clock), k - 1, text, clock)

TodoState ==
    [list |-> list, todoItems |-> todoItems, countText |-> countText,
     formListeners |-> formListeners, emitted |-> 0]

TodoApply(s) ==
    /\ list' = s.list
    /\ todoItems' = s.todoItems
    /\ countText' = s.countText
    /\ formListeners' = s.formListeners

\* the operation just performed and the state it started from
LastRec(op, text, idx, id, emitted) ==
    [op |-> op, text |-> text, idx |-> idx, id |-> id, emitted |-> emitted,
     list0 |-> list, items0 |-> todoItems, count0 |-> countText]

TodoInit ==
    /\ tdConnected = FALSE
    /\ list = <<>>
    /\ todoItems = <<>>
    /\ countText = <<>>
    /\ formListeners = 0
    /\ now = 0
    /\ last = LastRec("none", <<>>, 0, <<>>, 0)

\* todo-component.connectedCallback: render creates todo-input (one form,
\* one listener), an empty todo-list and todo-count showing 0; hydrate
\* collects the (zero) rendered items
TodoConnect ==
    /\ ~tdConnected
    /\ tdConnected' = TRUE
    /\ list' = <<>>
    /\ todoItems' = <<>>
    /\ countText' = <<"0">>
    /\ formListeners' = 1
    /\ last' = LastRec("connect", <<>>, 0, <<>>, 0)
    /\ UNCHANGED now
    /\ UNCHANGED <<counterVars, themeVars, menuVars, leafVars, pairVars,
                   dimVars>>

\* the element is taken out of the document (no disconnectedCallback)
TodoRemove ==
    /\ tdConnected
    /\ tdConnected' = FALSE
    /\ last' = LastRec("remove", <<>>, 0, <<>>, 0)
    /\ UNCHANGED <<list, todoItems, countText, formListeners, now>>
    /\ UNCHANGED <<counterVars, themeVars, menuVars, leafVars, pairVars,
                   dimVars>>

\* the clock advances
Tick ==
    /\ now < MaxClock
    /\ now' = now + 1
    /\ UNCHANGED <<tdConnected, list, todoItems, countText, formListeners, last>>
    /\ UNCHANGED <<counterVars, themeVars, menuVars, leafVars, pairVars,
                   dimVars>>

\* the user submits the form with `text` in the input
Submit(text) ==
    /\ tdConnected
    /\ Len(list) < MaxItems
    /\ LET s == RunSubmitListeners(TodoState, formListeners, text, now)
       IN /\ TodoApply(s)
          /\ last' = LastRec("submit", text, 0, ToString(now), s.emitted)
    /\ UNCHANGED <<tdConnected, now>>
    /\ UNCHANGED <<counterVars, themeVars, menuVars, leafVars, pairVars,
                   dimVars>>

\* the user presses the delete button of the todo-item at position i: the
\* item dispatches todo-item-delete with its own id; the root handles it
\* if it listens on that item
PressDelete(i) ==
    /\ tdConnected
    /\ i \in 1..Len(list)
    /\ LET s == IF list[i].listener THEN HandleDelete(TodoState, list[i].id)
                ELSE TodoState
       IN /\ TodoApply(s)
          /\ last' = LastRec("press", <<>>, i, list[i].id, 1)
    /\ UNCHANGED <<tdConnected, now>>
    /\ UNCHANGED <<counterVars, themeVars, menuVars, leafVars, pairVars,
                   dimVars>>

\* a todo-item-delete event carrying `id` is delivered to the root's
\* handleEvent (dispatched by script, for an id that may match no entry)
DeliverDelete(id) ==
    /\ tdConnected
    /\ ~ParseInt(countText).nan
    /\ ParseInt(countText).val > 0 - MaxUnderflow
    /\ TodoApply(HandleDelete(TodoState, id))
    /\ last' = LastRec("deliver", <<>>, 0, id, 1)
    /\ UNCHANGED <<tdConnected, now>>
    /\ UNCHANGED <<counterVars, themeVars, menuVars, leafVars, pairVars,
                   dimVars>>

TodoNext ==
    \/ TodoConnect
    \/ TodoRemove
    \/ Tick
    \/ \E text \in Texts : Submit(text)
    \/ \E i \in 1..MaxItems : PressDelete(i)
    \/ \E id \in Ids : DeliverDelete(id)

\* ========================================================================
\* document theme, toggle-theme
\* ========================================================================

Toggles == 1..NumToggles

\* the theme derived from the platform's colour-scheme preference
SystemTheme == IF prefersDark THEN "dark" ELSE "light"

\* document.documentElement.setAttribute("data-theme", t): every observer
\* subscribed on <html> gets a mutation record, whatever the old value
WriteTheme(t) ==
    /\ theme' = t
    /\ pending' = (pending \/ watchers > 0)
    /\ rewrite' = (watchers > 0 /\ theme = t)

\* EnsureTheme that writes the system theme whatever the attribute holds
EnsureThemeAlways == WriteTheme(SystemTheme)

\* toggle-theme.setSystemTheme / icon-theme-aware.getSystemTheme: write the
\* system theme only while the attribute is absent
EnsureTheme ==
    IF theme = "absent" THEN WriteTheme(SystemTheme)
    ELSE UNCHANGED <<theme, pending, rewrite>>

\* toggle-theme.setIconVisibility, reading data-theme value th
SetIconVisibility(icon, th) ==
    LET dataTheme == IF th = "absent" THEN "light" ELSE th
    IN IF icon = "sun" THEN (IF dataTheme = "dark" THEN "true" ELSE "false")
       ELSE IF icon = "moon" THEN (IF dataTheme = "light" THEN "true" ELSE "false")
       ELSE "false"

\* icon-sun.setDisplay / icon-moon.setDisplay, reading data-theme value th:
\* whether the rendered icon gets the class "active"
SetDisplay(icon, th) ==
    LET dataTheme == IF th = "absent" THEN "light" ELSE th
    IN IF icon = "sun" THEN dataTheme = "dark" ELSE dataTheme = "light"

ToggleInit ==
    /\ tgConnected = [tg \in Toggles |-> FALSE]
    /\ sunActive = [tg \in Toggles |-> "absent"]
    /\ moonActive = [tg \in Toggles |-> "absent"]
    /\ sunClass = [tg \in Toggles |-> FALSE]
    /\ moonClass = [tg \in Toggles |-> FALSE]
    /\ iconPending = {}

\* toggle-theme.connectedCallback: setSystemTheme, render (two new icons,
\* which render themselves and start observing their attributes), hydrate
ToggleConnect(tg) ==
    /\ ~tgConnected[tg]
    /\ ~pending
    /\ iconPending = {}
    /\ tgConnected' = [tgConnected EXCEPT ![tg] = TRUE]
    /\ EnsureTheme
    /\ sunActive' = [sunActive EXCEPT ![tg] = SetIconVisibility("sun", theme')]
    /\ moonActive' = [moonActive EXCEPT ![tg] = SetIconVisibility("moon", theme')]
    /\ sunClass' = [sunClass EXCEPT ![tg] = SetDisplay("sun", theme')]
    /\ moonClass' = [moonClass EXCEPT ![tg] = SetDisplay("moon", theme')]
    /\ UNCHANGED <<prefersDark, ldConnected, hyd, hydrated, currentTheme,
                   iconLight, iconDark, cache, display, observer, watchers>>
    /\ UNCHANGED <<iconPending, srcs, rejected, lookupHits, imgSerial>>
    /\ UNCHANGED <<counterVars, todoVars, menuVars, leafVars, pairVars,
                   dimVars>>

\* toggle-theme.disconnectedCallback: the two listeners are removed
ToggleDisconnect(tg) ==
    /\ tgConnected[tg]
    /\ ~pending
    /\ iconPending = {}
    /\ tgConnected' = [tgConnected EXCEPT ![tg] = FALSE]
    /\ UNCHANGED <<theme, rewrite, prefersDark, sunActive, moonActive, loaderVars>>
    /\ UNCHANGED <<sunClass, moonClass, iconPending>>
    /\ UNCHANGED <<counterVars, todoVars, menuVars, leafVars, pairVars,
                   dimVars>>

\* handleIconClick that flips the theme, whichever icon reports the click
HandleIconClickFlip(tg, id) ==
    IF id \in {"sun", "moon"}
    THEN IF theme = "dark"
         THEN /\ moonActive' = [moonActive EXCEPT ![tg] = "true"]
              /\ sunActive' = [sunActive EXCEPT ![tg] = "false"]
              /\ iconPending' = iconPending \cup {tg}
              /\ WriteTheme("light")
         ELSE /\ moonActive' = [moonActive EXCEPT ![tg] = "false"]
              /\ sunActive' = [sunActive EXCEPT ![tg] = "true"]
              /\ iconPending' = iconPending \cup {tg}
              /\ WriteTheme("dark")
    ELSE UNCHANGED <<moonActive, sunActive, iconPending, theme, pending,
                    rewrite>>

\* toggle-theme.handleIconClick for an event whose detail.id is id
HandleIconClick(tg, id) ==
    IF id = "moon"
    THEN /\ moonActive' = [moonActive EXCEPT ![tg] = "false"]
         /\ sunActive' = [sunActive EXCEPT ![tg] = "true"]
         /\ iconPending' = iconPending \cup {tg}
         /\ WriteTheme("dark")
    ELSE IF id = "sun"
    THEN /\ moonActive' = [moonActive EXCEPT ![tg] = "true"]
         /\ sunActive' = [sunActive EXCEPT ![tg] = "false"]
         /\ iconPending' = iconPending \cup {tg}
         /\ WriteTheme("light")
    ELSE UNCHANGED <<moonActive, sunActive, iconPending, theme, pending,
                    rewrite>>

\* the event type under which the icon with that id reports a click
ClickedType(id) == IF id = "sun" THEN "clicked-sun" ELSE "clicked-moon"

\* toggle-theme.handleEvent
ToggleHandleEvent(tg, type, id) ==
    IF type \in {"clicked-sun", "clicked-moon"} THEN HandleIconClick(tg, id)
    ELSE UNCHANGED <<moonActive, sunActive, iconPending, theme, pending,
                    rewrite>>

\* a click on icon-sun (id "sun") or icon-moon (id "moon") of toggle tg:
\* the icon dispatches clicked-<id> with detail {id}; toggle-theme.handleEvent
\* passes both kinds to handleIconClick
ToggleClick(tg, id) ==
    /\ tgConnected[tg]
    /\ ~pending
    /\ iconPending = {}
    /\ ToggleHandleEvent(tg, ClickedType(id), id)
    /\ UNCHANGED <<prefersDark, tgConnected, ldConnected, hyd, hydrated,
                   currentTheme, iconLight, iconDark, cache, display, observer,
                   watchers>>
    /\ UNCHANGED <<sunClass, moonClass, srcs, rejected, lookupHits, imgSerial>>
    /\ UNCHANGED <<counterVars, todoVars, menuVars, leafVars, pairVars,
                   dimVars>>

\* ========================================================================
\* icon-theme-aware
\* ========================================================================

\* the awaits at which a hydrate() call can be suspended: caches.open,
\* the two cache.match, and fetch and cache.put of either variant
Awaits == {"open", "matchLight", "matchDark", "fetchLight", "putLight",
           "fetchDark", "putDark"}

RECURSIVE SumOver(_, _)
SumOver(f, S) ==
    IF S = {} THEN 0
    ELSE LET x == CHOOSE y \in S : TRUE IN f[x] + SumOver(f, S \ {x})

\* number of hydrate() calls that have not run to their end
InFlight == SumOver(hyd, Awaits)

\* a hydrate() call suspended at `from` resumes and suspends again at `to`
Resume(from, to) == [hyd EXCEPT ![from] = @ - 1, ![to] = @ + 1]

\* a hydrate() call suspended at `from` resumes and runs to its end
Return(from) == [hyd EXCEPT ![from] = @ - 1]

\* the loader's state machine as the design describes it, with the state
\* of an instance whose hydration has ended by throwing
LoaderState ==
    IF InFlight > 0 THEN "resolving"
    ELSE IF hydrated THEN "ready"
    ELSE IF rejected THEN "failed"
    ELSE "uninitialized"

\* icon-theme-aware.insertIcon: the container is emptied, then the variant
\* of theme th is appended if it is held as a Blob
InsertIcon(th, light, dark) ==
    IF th = "light" /\ light = "blob" THEN "light"
    ELSE IF th = "dark" /\ dark = "blob" THEN "dark"
    ELSE "empty"

\* icon-theme-aware.getCacheItem on the cache store
GetCacheItem(c, uri) == IF uri \in c THEN "blob" ELSE "null"

\* the awaits across which a suspended call carries the result of a lookup
\* of its own: the light lookup while at matchDark, the dark lookup while
\* the light variant is fetched and stored
HitAwaits == {"matchDark", "fetchLight", "putLight"}

Count(b) == IF b THEN 1 ELSE 0

\* some call suspended at await a can resume: one whose own lookup was a
\* hit (own) or one whose own lookup missed
Resumable(a, own) == IF own THEN lookupHits[a] > 0 ELSE hyd[a] > lookupHits[a]

\* the <img> in the container after an insertIcon that leaves `shown`:
\* every insert of a variant creates a new element
NextSerial(shown) == IF shown = "empty" THEN imgSerial ELSE 1 - imgSerial

LoaderInit ==
    /\ ldConnected = FALSE
    /\ hyd = [a \in Awaits |-> 0]
    /\ hydrated = FALSE
    /\ currentTheme = "undefined"
    /\ iconLight = "undefined"
    /\ iconDark = "undefined"
    /\ cache \in SUBSET {"light", "dark"}
    /\ display = "empty"
    /\ observer = "null"
    /\ watchers = 0
    /\ pending = FALSE
    /\ srcs \in SUBSET {"light", "dark"}
    /\ rejected = FALSE
    /\ lookupHits = [a \in HitAwaits |-> 0]
    /\ imgSerial = 0

\* icon-theme-aware.connectedCallback: render (a fresh, empty container),
\* then hydrate up to its first suspension: initVariables reads the theme,
\* resets both icons and awaits caches.open
LoaderConnect ==
    /\ ~ldConnected
    /\ ~pending
    /\ iconPending = {}
    /\ watchers + InFlight < MaxHydrations
    /\ ldConnected' = TRUE
    /\ display' = "empty"
    /\ EnsureTheme
    /\ currentTheme' = theme'
    /\ iconLight' = "null"
    /\ iconDark' = "null"
    /\ hyd' = [hyd EXCEPT !["open"] = @ + 1]
    /\ UNCHANGED <<prefersDark, toggleVars, hydrated, cache, observer, watchers>>
    /\ UNCHANGED <<srcs, rejected, lookupHits, imgSerial>>
    /\ UNCHANGED <<counterVars, todoVars, menuVars, leafVars, pairVars,
                   dimVars>>

\* icon-theme-aware.disconnectedCallback
LoaderDisconnect ==
    /\ ldConnected
    /\ ~pending
    /\ iconPending = {}
    /\ ldConnected' = FALSE
    /\ observer' = IF observer = "null" THEN "null" ELSE "disconnected"
    /\ watchers' = IF observer = "observing" THEN watchers - 1 ELSE watchers
    /\ pending' = (pending /\ watchers' > 0)
    /\ UNCHANGED <<theme, rewrite, prefersDark, toggleVars, hyd, hydrated, currentTheme,
                   iconLight, iconDark, cache, display>>
    /\ UNCHANGED <<srcs, rejected, lookupHits, imgSerial>>
    /\ UNCHANGED <<counterVars, todoVars, menuVars, leafVars, pairVars,
                   dimVars>>

\* the end of hydrate(): insertIcon for this.currentTheme, observeAttributes
Finish(from, light, dark) ==
    /\ display' = InsertIcon(currentTheme, light, dark)
    /\ imgSerial' = NextSerial(display')
    /\ observer' = "observing"
    /\ watchers' = watchers + 1
    /\ hydrated' = TRUE
    /\ hyd' = Return(from)

\* hydrate() after the light variant is settled: fetch the dark one if
\* this.iconDark is null, else finish
AfterLight(from, light, dark) ==
    IF dark = "null"
    THEN /\ hyd' = Resume(from, "fetchDark")
         /\ UNCHANGED <<display, imgSerial, observer, watchers, hydrated>>
    ELSE Finish(from, light, dark)

\* CacheOpened that goes on to the lookups without checking the sources
CacheOpenedNoSourceCheck ==
    /\ hyd["open"] > 0
    /\ ~pending
    /\ iconPending = {}
    /\ hyd' = Resume("open", "matchLight")
    /\ UNCHANGED <<theme, rewrite, prefersDark, toggleVars, ldConnected, hydrated,
                   currentTheme, iconLight, iconDark, cache, display, observer,
                   watchers, pending>>
    /\ UNCHANGED <<srcs, rejected, lookupHits, imgSerial>>
    /\ UNCHANGED <<counterVars, todoVars, menuVars, leafVars, pairVars,
                   dimVars>>

\* caches.open resolved: initVariables returns, hydrate checks cache and
\* sources (throwing when one is missing) and initIcons starts the lookup
\* of the light variant
CacheOpened ==
    /\ hyd["open"] > 0
    /\ ~pending
    /\ iconPending = {}
    /\ IF srcs = {"light", "dark"}
       THEN /\ hyd' = Resume("open", "matchLight")
            /\ UNCHANGED rejected
       ELSE /\ hyd' = Return("open")
            /\ rejected' = TRUE
    /\ UNCHANGED <<theme, rewrite, prefersDark, toggleVars, ldConnected, hydrated,
                   currentTheme, iconLight, iconDark, cache, display, observer,
                   watchers, pending>>
    /\ UNCHANGED <<srcs, lookupHits, imgSerial>>
    /\ UNCHANGED <<counterVars, todoVars, menuVars, leafVars, pairVars,
                   dimVars>>

\* cache.match(srcLight) resolved: initIcons stores the result and starts
\* the lookup of the dark variant
MatchLightDone ==
    /\ hyd["matchLight"] > 0
    /\ ~pending
    /\ iconPending = {}
    /\ iconLight' = GetCacheItem(cache, "light")
    /\ hyd' = Resume("matchLight", "matchDark")
    /\ lookupHits' = [lookupHits EXCEPT
                          !["matchDark"] = @ + Count("light" \in cache)]
    /\ UNCHANGED <<theme, rewrite, prefersDark, toggleVars, ldConnected, hydrated,
                   currentTheme, iconDark, cache, display, observer, watchers,
                   pending>>
    /\ UNCHANGED <<srcs, rejected, imgSerial>>
    /\ UNCHANGED <<counterVars, todoVars, menuVars, leafVars, pairVars,
                   dimVars>>

\* cache.match(srcDark) resolved: initIcons returns; hydrate fetches the
\* light variant if this.iconLight is null, else goes on to the dark one
MatchDarkDone ==
    /\ hyd["matchDark"] > 0
    /\ ~pending
    /\ iconPending = {}
    /\ iconDark' = GetCacheItem(cache, "dark")
    /\ \E own \in BOOLEAN :
          /\ Resumable("matchDark", own)
          /\ lookupHits' = [lookupHits EXCEPT
                !["matchDark"] = @ - Count(own),
                !["fetchLight"] = @ + Count(iconLight = "null" /\ "dark" \in cache)]
    /\ IF iconLight = "null"
       THEN /\ hyd' = Resume("matchDark", "fetchLight")
            /\ UNCHANGED <<display, imgSerial, observer, watchers, hydrated>>
       ELSE AfterLight("matchDark", iconLight, iconDark')
    /\ UNCHANGED <<theme, rewrite, prefersDark, toggleVars, ldConnected, currentTheme,
                   iconLight, cache, pending>>
    /\ UNCHANGED <<srcs, rejected>>
    /\ UNCHANGED <<counterVars, todoVars, menuVars, leafVars, pairVars,
                   dimVars>>

\* fetch(srcLight) settled: ok is a response with response.ok; otherwise
\* fetchIcon catches and returns null
FetchLightDone(ok) ==
    /\ hyd["fetchLight"] > 0
    /\ ~pending
    /\ iconPending = {}
    /\ IF ok
       THEN /\ hyd' = Resume("fetchLight", "putLight")
            /\ UNCHANGED <<iconLight, display, imgSerial, observer, watchers, hydrated>>
       ELSE /\ iconLight' = "null"
            /\ AfterLight("fetchLight", "null", iconDark)
    /\ \E own \in BOOLEAN :
          /\ Resumable("fetchLight", own)
          /\ lookupHits' = [lookupHits EXCEPT
                !["fetchLight"] = @ - Count(own),
                !["putLight"] = @ + Count(ok /\ own)]
    /\ UNCHANGED <<theme, rewrite, prefersDark, toggleVars, ldConnected, currentTheme,
                   iconDark, cache, pending>>
    /\ UNCHANGED <<srcs, rejected>>
    /\ UNCHANGED <<counterVars, todoVars, menuVars, leafVars, pairVars,
                   dimVars>>

\* cache.put(srcLight, clone) settled: on success the entry is stored and
\* the blob returned, on failure fetchIcon catches and returns null
PutLightDone(ok) ==
    /\ hyd["putLight"] > 0
    /\ ~pending
    /\ iconPending = {}
    /\ cache' = IF ok THEN cache \cup {"light"} ELSE cache
    /\ iconLight' = IF ok THEN "blob" ELSE "null"
    /\ AfterLight("putLight", iconLight', iconDark)
    /\ \E own \in BOOLEAN :
          /\ Resumable("putLight", own)
          /\ lookupHits' = [lookupHits EXCEPT !["putLight"] = @ - Count(own)]
    /\ UNCHANGED <<theme, rewrite, prefersDark, toggleVars, ldConnected, currentTheme,
                   iconDark, pending>>
    /\ UNCHANGED <<srcs, rejected>>
    /\ UNCHANGED <<counterVars, todoVars, menuVars, leafVars, pairVars,
                   dimVars>>

\* FetchDarkDone whose failure is not caught: the hydrate() call ends there
FetchDarkDoneUncaught(ok) ==
    /\ hyd["fetchDark"] > 0
    /\ ~pending
    /\ iconPending = {}
    /\ IF ok
       THEN /\ hyd' = Resume("fetchDark", "putDark")
            /\ UNCHANGED rejected
       ELSE /\ hyd' = Return("fetchDark")
            /\ rejected' = TRUE
    /\ UNCHANGED <<iconDark, display, imgSerial, observer, watchers, hydrated>>
    /\ UNCHANGED <<theme, rewrite, prefersDark, toggleVars, ldConnected, currentTheme,
                   iconLight, cache, pending>>
    /\ UNCHANGED <<srcs, lookupHits>>
    /\ UNCHANGED <<counterVars, todoVars, menuVars, leafVars, pairVars,
                   dimVars>>

\* fetch(srcDark) settled
FetchDarkDone(ok) ==
    /\ hyd["fetchDark"] > 0
    /\ ~pending
    /\ iconPending = {}
    /\ IF ok
       THEN /\ hyd' = Resume("fetchDark", "putDark")
            /\ UNCHANGED <<iconDark, display, imgSerial, observer, watchers, hydrated>>
       ELSE /\ iconDark' = "null"
            /\ Finish("fetchDark", iconLight, "null")
    /\ UNCHANGED <<theme, rewrite, prefersDark, toggleVars, ldConnected, currentTheme,
                   iconLight, cache, pending>>
    /\ UNCHANGED <<srcs, rejected, lookupHits>>
    /\ UNCHANGED <<counterVars, todoVars, menuVars, leafVars, pairVars,
                   dimVars>>

\* cache.put(srcDark, clone) settled
PutDarkDone(ok) ==
    /\ hyd["putDark"] > 0
    /\ ~pending
    /\ iconPending = {}
    /\ cache' = IF ok THEN cache \cup {"dark"} ELSE cache
    /\ iconDark' = IF ok THEN "blob" ELSE "null"
    /\ Finish("putDark", iconLight, iconDark')
    /\ UNCHANGED <<theme, rewrite, prefersDark, toggleVars, ldConnected, currentTheme,
                   iconLight, pending>>
    /\ UNCHANGED <<srcs, rejected, lookupHits>>
    /\ UNCHANGED <<counterVars, todoVars, menuVars, leafVars, pairVars,
                   dimVars>>

\* ObserverCallback that records the theme without calling insertIcon
ObserverCallbackNoRender ==
    /\ currentTheme' = IF currentTheme # "undefined" /\ theme # "absent"
                       THEN theme ELSE currentTheme
    /\ UNCHANGED <<display, imgSerial>>

\* the MutationObserver callback of observeAttributes, run for the queued
\* records: this.currentTheme follows data-theme and insertIcon re-renders
ObserverCallback ==
    /\ currentTheme' = IF currentTheme # "undefined" /\ theme # "absent"
                       THEN theme ELSE currentTheme
    /\ display' = IF theme \in {"light", "dark"}
                  THEN InsertIcon(currentTheme', iconLight, iconDark)
                  ELSE display
    /\ imgSerial' = IF theme \in {"light", "dark"}
                    THEN NextSerial(display') ELSE imgSerial

\* the records queued for the loader's observers on <html> are delivered
LoaderObservers ==
    IF pending THEN ObserverCallback
    ELSE UNCHANGED <<currentTheme, display, imgSerial>>

\* the records queued for the observers of icon-sun and icon-moon are
\* delivered: each icon adds the class "active" when its data-active reads
\* "true" and removes it otherwise
IconObservers ==
    /\ sunClass' = [tg \in Toggles |->
                      IF tg \in iconPending THEN sunActive[tg] = "true"
                      ELSE sunClass[tg]]
    /\ moonClass' = [tg \in Toggles |->
                       IF tg \in iconPending THEN moonActive[tg] = "true"
                       ELSE moonClass[tg]]

\* Notify whose callback resolves the variants again (initVariables and
\* the cache lookups restarted on every theme change)
NotifyRehydrate ==
    /\ pending \/ iconPending # {}
    /\ pending' = FALSE
    /\ rewrite' = FALSE
    /\ iconPending' = {}
    /\ LoaderObservers
    /\ IconObservers
    /\ IF pending
       THEN /\ iconLight' = "null"
            /\ iconDark' = "null"
            /\ hyd' = [hyd EXCEPT !["open"] = 1]
       ELSE UNCHANGED <<iconLight, iconDark, hyd>>
    /\ UNCHANGED <<theme, prefersDark, tgConnected, sunActive, moonActive,
                   ldConnected, hydrated, cache, observer, watchers>>
    /\ UNCHANGED <<srcs, rejected, lookupHits>>
    /\ UNCHANGED <<counterVars, todoVars, menuVars, leafVars, pairVars,
                   dimVars>>

\* the microtask checkpoint after a task that wrote attributes: the queued
\* mutation records are delivered to every observer
Notify ==
    /\ pending \/ iconPending # {}
    /\ pending' = FALSE
    /\ rewrite' = FALSE
    /\ iconPending' = {}
    /\ LoaderObservers
    /\ IconObservers
    /\ UNCHANGED <<theme, prefersDark, tgConnected, sunActive, moonActive,
                   ldConnected, hyd, hydrated, iconLight, iconDark, cache,
                   observer, watchers>>
    /\ UNCHANGED <<srcs, rejected, lookupHits>>
    /\ UNCHANGED <<counterVars, todoVars, menuVars, leafVars, pairVars,
                   dimVars>>

ThemeInit ==
    /\ theme \in {"absent", "light", "dark"}
    /\ rewrite = FALSE
    /\ prefersDark \in BOOLEAN
    /\ ToggleInit
    /\ LoaderInit

\* a page with several theme toggles
ToggleNext ==
    \/ \E tg \in Toggles : ToggleConnect(tg)
    \/ \E tg \in Toggles : ToggleDisconnect(tg)
    \/ \E tg \in Toggles, id \in {"sun", "moon"} : ToggleClick(tg, id)
    \/ Notify

\* a page with one theme toggle and one icon-theme-aware
LoaderNext ==
    \/ ToggleConnect(1)
    \/ ToggleDisconnect(1)
    \/ \E id \in {"sun", "moon"} : ToggleClick(1, id)
    \/ LoaderConnect
    \/ LoaderDisconnect
    \/ CacheOpened
    \/ MatchLightDone
    \/ MatchDarkDone
    \/ \E ok \in BOOLEAN : FetchLightDone(ok)
    \/ \E ok \in BOOLEAN : PutLightDone(ok)
    \/ \E ok \in BOOLEAN : FetchDarkDone(ok)
    \/ \E ok \in BOOLEAN : PutDarkDone(ok)
    \/ Notify

\* ========================================================================
\* hamburger-menu, hamburger-icon, hamburger-nav
\* ========================================================================

\* the documents a data-links attribute may hold: no attribute at all,
\* text that is not JSON, and JSON arrays of link objects.  A link object
\* is kept as the number of its children (0: a plain link with a url).
LinkLists == {<<>>, <<0>>, <<0, 2>>}

DataLinksValues ==
    {[json |-> "absent", links |-> <<>>], [json |-> "malformed", links |-> <<>>]}
        \cup {[json |-> "array", links |-> l] : l \in LinkLists}

\* JSON.parse(raw): a missing attribute reads as null, which parses to
\* null; malformed text throws; an array parses to its link objects
JsonParse(raw) ==
    IF raw.json = "malformed" THEN [threw |-> TRUE, isArray |-> FALSE, links |-> <<>>]
    ELSE IF raw.json = "absent" THEN [threw |-> FALSE, isArray |-> FALSE, links |-> <<>>]
    ELSE [threw |-> FALSE, isArray |-> TRUE, links |-> raw.links]

\* HamburgerNav.getDataLinks: undefined when JSON.parse threw
GetDataLinks(raw) ==
    LET p == JsonParse(raw)
    IN IF p.threw THEN [defined |-> FALSE, isArray |-> FALSE, links |-> <<>>]
       ELSE [defined |-> TRUE, isArray |-> p.isArray, links |-> p.links]

\* HamburgerNav.createLinkItem: the anchors with id hm-nav-link that one
\* link object yields (itself, or one per child made by createSubLinkItem)
CreateLinkItem(children) == IF children > 0 THEN children ELSE 1

RECURSIVE CountAnchors(_)
CountAnchors(links) ==
    IF links = <<>> THEN 0
    ELSE CreateLinkItem(Head(links)) + CountAnchors(Tail(links))

\* HamburgerNav.render: this.dataLinks.forEach throws a TypeError unless
\* getDataLinks returned an array, and nothing is appended in that case
NavRender(raw) ==
    LET d == GetDataLinks(raw)
    IN IF d.defined /\ d.isArray
       THEN [threw |-> FALSE, anchors |-> CountAnchors(d.links)]
       ELSE [threw |-> TRUE, anchors |-> 0]

\* String(b) of a boolean
BoolToString(b) == IF b THEN "true" ELSE "false"

\* HamburgerMenu.setMenuState
SetMenuState == [icon |-> "false", nav |-> "false"]

\* HamburgerMenu.toggleAttribute on the two data-active attributes
ToggleAttribute(s) ==
    LET current == (s.icon = "true")
    IN [icon |-> BoolToString(~current), nav |-> BoolToString(~current)]

\* a click runs every click listener the menu has added to the target
RECURSIVE RunClickListeners(_, _)
RunClickListeners(s, k) ==
    IF k = 0 THEN s ELSE RunClickListeners(ToggleAttribute(s), k - 1)

MenuState == [icon |-> hmIconActive, nav |-> hmNavActive]

MenuApply(s) ==
    /\ hmIconActive' = s.icon
    /\ hmNavActive' = s.nav

\* the operation just performed and the state it started from
MenuLast(op) ==
    [op |-> op, icon0 |-> hmIconActive, nav0 |-> hmNavActive,
     errors0 |-> hmErrors]

MenuInit ==
    /\ hmConnected = FALSE
    /\ rendered = FALSE
    /\ dataLinks \in DataLinksValues
    /\ hmIconActive = "absent"
    /\ hmNavActive = "absent"
    /\ iconListeners = 0
    /\ navLinks = 0
    /\ linkListeners = 0
    /\ navRendered = FALSE
    /\ hmErrors = 0
    /\ hmIconClass = FALSE
    /\ hmNavClass = FALSE
    /\ hmPending = FALSE
    /\ hmLast = [op |-> "none", icon0 |-> "absent", nav0 |-> "absent",
                 errors0 |-> 0]

\* hamburger-menu enters the document.  The first time, render creates
\* hamburger-icon and hamburger-nav, whose connectedCallbacks run before
\* hydrate; on a later insertion render returns at once, hydrate adds
\* listeners to the elements that are there, and only then do the children
\* run their connectedCallbacks, hamburger-nav building fresh anchors.
\* Both children render without the class "active" and start observing
\* their own attributes in hydrate, so the writes of setMenuState are
\* recorded on the first insertion only.
MenuConnect ==
    /\ ~hmConnected
    /\ ~hmPending
    /\ iconListeners < MaxMenuConnects
    /\ hmConnected' = TRUE
    /\ rendered' = TRUE
    /\ LET nav == NavRender(dataLinks)
       IN /\ navRendered' = (navRendered \/ ~nav.threw)
          /\ navLinks' = IF nav.threw THEN navLinks ELSE nav.anchors
          /\ hmErrors' = IF nav.threw THEN hmErrors + 1 ELSE hmErrors
          /\ linkListeners' =
                IF rendered
                THEN (IF nav.threw /\ navLinks > 0 THEN linkListeners + 1 ELSE 0)
                ELSE (IF nav.anchors > 0 THEN 0 + 1 ELSE 0)
    /\ iconListeners' = iconListeners + 1
    /\ MenuApply(SetMenuState)
    /\ hmIconClass' = FALSE
    /\ hmNavClass' = FALSE
    /\ hmPending' = ~rendered
    /\ hmLast' = MenuLast("connect")
    /\ UNCHANGED dataLinks
    /\ UNCHANGED <<counterVars, todoVars, themeVars, leafVars, pairVars,
                   dimVars>>

\* hamburger-menu leaves the document: disconnectedCallback names a
\* handler that was never registered and fresh arrow functions, so no
\* listener is removed; the children disconnect their observers
MenuDisconnect ==
    /\ hmConnected
    /\ ~hmPending
    /\ hmConnected' = FALSE
    /\ hmLast' = MenuLast("disconnect")
    /\ UNCHANGED <<rendered, dataLinks, hmIconActive, hmNavActive,
                   iconListeners, navLinks, linkListeners, navRendered,
                   hmErrors, hmIconClass, hmNavClass, hmPending>>
    /\ UNCHANGED <<counterVars, todoVars, themeVars, leafVars, pairVars,
                   dimVars>>

\* a click on the hamburger icon
IconClick ==
    /\ hmConnected
    /\ ~hmPending
    /\ MenuApply(RunClickListeners(MenuState, iconListeners))
    /\ hmPending' = (iconListeners > 0)
    /\ hmLast' = MenuLast("iconClick")
    /\ UNCHANGED <<hmConnected, rendered, dataLinks, iconListeners, navLinks,
                   linkListeners, navRendered, hmErrors, hmIconClass,
                   hmNavClass>>
    /\ UNCHANGED <<counterVars, todoVars, themeVars, leafVars, pairVars,
                   dimVars>>

\* a click on one of the generated anchors (a link or a sub-link)
LinkClick ==
    /\ hmConnected
    /\ navLinks > 0
    /\ ~hmPending
    /\ MenuApply(RunClickListeners(MenuState, linkListeners))
    /\ hmPending' = (linkListeners > 0)
    /\ hmLast' = MenuLast("linkClick")
    /\ UNCHANGED <<hmConnected, rendered, dataLinks, iconListeners, navLinks,
                   linkListeners, navRendered, hmErrors, hmIconClass,
                   hmNavClass>>
    /\ UNCHANGED <<counterVars, todoVars, themeVars, leafVars, pairVars,
                   dimVars>>

\* delivery of the queued records (a microtask after the writes): the
\* observer of hamburger-icon and, if hamburger-nav got as far as hydrate,
\* the observer of hamburger-nav copy data-active into the class "active"
MenuNotify ==
    /\ hmPending
    /\ hmPending' = FALSE
    /\ hmIconClass' = (hmIconActive = "true")
    /\ hmNavClass' = IF navRendered THEN hmNavActive = "true" ELSE hmNavClass
    /\ UNCHANGED <<hmConnected, rendered, dataLinks, hmIconActive, hmNavActive,
                   iconListeners, navLinks, linkListeners, navRendered,
                   hmErrors, hmLast>>
    /\ UNCHANGED <<counterVars, todoVars, themeVars, leafVars, pairVars,
                   dimVars>>

MenuNext ==
    \/ MenuConnect
    \/ MenuDisconnect
    \/ IconClick
    \/ LinkClick
    \/ MenuNotify

\* ========================================================================
\* the three dispatch roots on one page
\* ========================================================================

\* a script hands events of a type that no root switches on to handleEvent
\* of counter-component, of todo-component (detail {id, text}) and of
\* toggle-theme (detail {id: icon}) in turn
DeliverUnknown(id, text, icon) ==
    /\ cConnected
    /\ tdConnected
    /\ tgConnected[1]
    /\ ~pending
    /\ iconPending = {}
    /\ CounterHandle("unknown")
    /\ TodoApply(TodoHandleEvent(TodoState, "unknown", text, id))
    /\ last' = LastRec("unknown", text, 0, id, 0)
    /\ ToggleHandleEvent(1, "unknown", icon)
    /\ UNCHANGED <<cConnected, nInc, nDec, tdConnected, now>>
    /\ UNCHANGED <<prefersDark, tgConnected, sunClass, moonClass, loaderVars>>
    /\ UNCHANGED <<menuVars, leafVars, pairVars,
                   dimVars>>

\* a page with a counter, a todo list and one theme toggle (the counter
\* and the todo list neither read nor write what the icons' queued records
\* are about)
RootsNext ==
    \/ CounterConnect
    \/ Increment
    \/ Decrement
    \/ TodoConnect
    \/ Submit(<<"a">>)
    \/ ToggleConnect(1)
    \/ \E id \in {"sun", "moon"} : ToggleClick(1, id)
    \/ Notify
    \/ \E id \in Ids, icon \in {"sun", "moon"} : DeliverUnknown(id, <<"a">>, icon)

\* ========================================================================
\* Leaf controls: counter-increment, counter-decrement, icon-sun, icon-moon
\* and todo-item, each taken on its own
\* ========================================================================

Leaves ==
    {"counter-increment", "counter-decrement", "icon-sun", "icon-moon",
     "todo-item"}

\* the event a leaf's click listener constructs; detail is <<>> for an
\* Event, which carries none, and <<id>> for a CustomEvent with detail {id}
LeafEvent(l) ==
    CASE l = "counter-increment" ->
           [type |-> "increment", bubbles |-> TRUE, composed |-> FALSE,
            detail |-> <<>>]
      [] l = "counter-decrement" ->
           [type |-> "decrement", bubbles |-> TRUE, composed |-> FALSE,
            detail |-> <<>>]
      [] l = "icon-sun" ->
           [type |-> "clicked-sun", bubbles |-> TRUE, composed |-> FALSE,
            detail |-> <<"sun">>]
      [] l = "icon-moon" ->
           [type |-> "clicked-moon", bubbles |-> TRUE, composed |-> FALSE,
            detail |-> <<"moon">>]
      [] l = "todo-item" ->
           [type |-> "todo-item-delete", bubbles |-> TRUE, composed |-> FALSE,
            detail |-> <<itemId>>]

\* render(): innerHTML is assigned, so the inner element is a new one
LeafRender(n) == 0

\* hydrate(): one more click listener (a new function) on the inner element
LeafHydrate(n) == n + 1

LeafInit ==
    /\ leafConnected = [l \in Leaves |-> FALSE]
    /\ buttonListeners = [l \in Leaves |-> 0]
    /\ itemId = <<>>
    /\ leafClicks = [l \in Leaves |-> 0]
    /\ leafEvents = [l \in Leaves |-> <<>>]

\* connectedCallback that hydrates what an earlier insertion has rendered
LeafConnectNoRender(l, id) ==
    /\ ~leafConnected[l]
    /\ id \in (IF l = "todo-item" /\ itemId = <<>> THEN Ids ELSE {itemId})
    /\ leafConnected' = [leafConnected EXCEPT ![l] = TRUE]
    /\ buttonListeners' =
         [buttonListeners EXCEPT ![l] = LeafHydrate(buttonListeners[l])]
    /\ itemId' = id
    /\ UNCHANGED <<leafClicks, leafEvents>>
    /\ UNCHANGED <<counterVars, todoVars, themeVars, menuVars, pairVars,
                   dimVars>>

\* connectedCallback of a leaf: render(), then hydrate(); todo-list gives a
\* todo-item its id before it inserts it
LeafConnect(l, id) ==
    /\ ~leafConnected[l]
    /\ id \in (IF l = "todo-item" /\ itemId = <<>> THEN Ids ELSE {itemId})
    /\ leafConnected' = [leafConnected EXCEPT ![l] = TRUE]
    /\ buttonListeners' =
         [buttonListeners EXCEPT
            ![l] = LeafHydrate(LeafRender(buttonListeners[l]))]
    /\ itemId' = id
    /\ UNCHANGED <<leafClicks, leafEvents>>
    /\ UNCHANGED <<counterVars, todoVars, themeVars, menuVars, pairVars,
                   dimVars>>

\* the leaf is taken out of the document (it may be inserted again)
LeafDisconnect(l) ==
    /\ leafConnected[l]
    /\ leafConnected' = [leafConnected EXCEPT ![l] = FALSE]
    /\ UNCHANGED <<buttonListeners, itemId, leafClicks, leafEvents>>
    /\ UNCHANGED <<counterVars, todoVars, themeVars, menuVars, pairVars,
                   dimVars>>

\* one click on the inner element: each of its click listeners dispatches
\* one event on the leaf
LeafClick(l) ==
    /\ leafConnected[l]
    /\ leafClicks[l] < MaxLeafClicks
    /\ leafClicks' = [leafClicks EXCEPT ![l] = @ + 1]
    /\ leafEvents' =
         [leafEvents EXCEPT
            ![l] = @ \o [i \in 1..buttonListeners[l] |-> LeafEvent(l)]]
    /\ UNCHANGED <<leafConnected, buttonListeners, itemId>>
    /\ UNCHANGED <<counterVars, todoVars, themeVars, menuVars, pairVars,
                   dimVars>>

LeafNext ==
    \/ \E l \in Leaves, id \in Ids \cup {<<>>} : LeafConnect(l, id)
    \/ \E l \in Leaves : LeafDisconnect(l)
    \/ \E l \in Leaves : LeafClick(l)

\* ========================================================================
\* Two icon-theme-aware instances that name the same cache and the same
\* two source URIs, each connected once
\* ========================================================================

Pair == {1, 2}

\* the two URIs, named by the variant they hold
URIs == {"light", "dark"}

\* cache.match(key) followed by response.blob(): the payload of the entry
\* under that key, null on a miss
PairGetCacheItem(u) == IF entries[u] # <<>> THEN "blob" ELSE "null"

\* cache.put that keeps what is stored under the key next to the new entry
CachePutAppend(u, p) == [entries EXCEPT ![u] = Append(@, p)]

\* cache.put(key, response): the new entry replaces what is stored under
\* the key
CachePut(u, p) == [entries EXCEPT ![u] = <<p>>]

\* where hydrate() goes on once this.iconLight is settled: line 48
PairAfterLight(dark) == IF dark = "null" THEN "fetchDark" ELSE "ready"

\* where hydrate() goes on after initIcons: lines 45 and 48
PairAfterLookup(light, dark) ==
    IF light = "null" THEN "fetchLight" ELSE PairAfterLight(dark)

\* no instance is in the document; the cache may hold entries of an
\* earlier visit (writer 0)
PairInit ==
    /\ pairAt = [p \in Pair |-> "idle"]
    /\ pairLight = [p \in Pair |-> "undefined"]
    /\ pairDark = [p \in Pair |-> "undefined"]
    /\ entries \in [URIs -> {<<>>, <<0>>}]
    /\ reachable \in SUBSET URIs

\* the page has no such pair: empty cache, both URIs served
PairAtRest ==
    /\ entries = [u \in URIs |-> <<>>]
    /\ reachable = URIs

\* connectedCallback: hydrate() runs initVariables (getSystemTheme, the
\* two icon fields) up to await caches.open; of each instance the pair keeps
\* what the cache protocol reads and writes
PairConnect(p) ==
    /\ pairAt[p] = "idle"
    /\ EnsureTheme
    /\ pairAt' = [pairAt EXCEPT ![p] = "open"]
    /\ pairLight' = [pairLight EXCEPT ![p] = "null"]
    /\ pairDark' = [pairDark EXCEPT ![p] = "null"]
    /\ UNCHANGED <<entries, reachable>>
    /\ UNCHANGED <<prefersDark, toggleVars, ldConnected, hyd, hydrated,
                   currentTheme, iconLight, iconDark, cache, display, observer,
                   watchers, srcs, rejected, lookupHits, imgSerial>>
    /\ UNCHANGED <<counterVars, todoVars, menuVars, leafVars,
                   dimVars>>

\* caches.open resolves; initIcons starts the lookup of srcLight
PairCacheOpened(p) ==
    /\ pairAt[p] = "open"
    /\ pairAt' = [pairAt EXCEPT ![p] = "matchLight"]
    /\ UNCHANGED <<pairLight, pairDark, entries, reachable>>
    /\ UNCHANGED <<counterVars, todoVars, themeVars, menuVars, leafVars,
                   dimVars>>

\* the lookup of srcLight resolves; initIcons starts the lookup of srcDark
PairMatchLightDone(p) ==
    /\ pairAt[p] = "matchLight"
    /\ pairLight' = [pairLight EXCEPT ![p] = PairGetCacheItem("light")]
    /\ pairAt' = [pairAt EXCEPT ![p] = "matchDark"]
    /\ UNCHANGED <<pairDark, entries, reachable>>
    /\ UNCHANGED <<counterVars, todoVars, themeVars, menuVars, leafVars,
                   dimVars>>

\* the lookup of srcDark resolves; hydrate() fetches what it misses
PairMatchDarkDone(p) ==
    /\ pairAt[p] = "matchDark"
    /\ pairDark' = [pairDark EXCEPT ![p] = PairGetCacheItem("dark")]
    /\ pairAt' =
         [pairAt EXCEPT ![p] = PairAfterLookup(pairLight[p], pairDark'[p])]
    /\ UNCHANGED <<pairLight, entries, reachable>>
    /\ UNCHANGED <<counterVars, todoVars, themeVars, menuVars, leafVars,
                   dimVars>>

\* fetch(srcLight) settles: an ok response goes on to cache.put, anything
\* else makes fetchIcon return null
PairFetchLightDone(p) ==
    /\ pairAt[p] = "fetchLight"
    /\ pairAt' =
         [pairAt EXCEPT
            ![p] = IF "light" \in reachable THEN "putLight"
                   ELSE PairAfterLight(pairDark[p])]
    /\ UNCHANGED <<pairLight, pairDark, entries, reachable>>
    /\ UNCHANGED <<counterVars, todoVars, themeVars, menuVars, leafVars,
                   dimVars>>

\* cache.put(srcLight) resolves; fetchIcon returns the blob
PairPutLightDone(p) ==
    /\ pairAt[p] = "putLight"
    /\ entries' = CachePut("light", p)
    /\ pairLight' = [pairLight EXCEPT ![p] = "blob"]
    /\ pairAt' = [pairAt EXCEPT ![p] = PairAfterLight(pairDark[p])]
    /\ UNCHANGED <<pairDark, reachable>>
    /\ UNCHANGED <<counterVars, todoVars, themeVars, menuVars, leafVars,
                   dimVars>>

\* fetch(srcDark) settles
PairFetchDarkDone(p) ==
    /\ pairAt[p] = "fetchDark"
    /\ pairAt' =
         [pairAt EXCEPT
            ![p] = IF "dark" \in reachable THEN "putDark" ELSE "ready"]
    /\ UNCHANGED <<pairLight, pairDark, entries, reachable>>
    /\ UNCHANGED <<counterVars, todoVars, themeVars, menuVars, leafVars,
                   dimVars>>

\* cache.put(srcDark) resolves; hydrate() runs to its end
PairPutDarkDone(p) ==
    /\ pairAt[p] = "putDark"
    /\ entries' = CachePut("dark", p)
    /\ pairDark' = [pairDark EXCEPT ![p] = "blob"]
    /\ pairAt' = [pairAt EXCEPT ![p] = "ready"]
    /\ UNCHANGED <<pairLight, reachable>>
    /\ UNCHANGED <<counterVars, todoVars, themeVars, menuVars, leafVars,
                   dimVars>>

PairNext ==
    \/ \E p \in Pair : PairConnect(p)
    \/ \E p \in Pair : PairCacheOpened(p)
    \/ \E p \in Pair : PairMatchLightDone(p)
    \/ \E p \in Pair : PairMatchDarkDone(p)
    \/ \E p \in Pair : PairFetchLightDone(p)
    \/ \E p \in Pair : PairPutLightDone(p)
    \/ \E p \in Pair : PairFetchDarkDone(p)
    \/ \E p \in Pair : PairPutDarkDone(p)

\* ========================================================================
\* The dimensions of an icon-theme-aware: data-height, data-width
\* ========================================================================

\* the fallback initVariables passes for both dimensions
DimensionFallback == 64

\* attribute texts a page may give a dimension
DimTexts ==
    {<<>>, <<"0">>, <<"7">>, <<"1", "2">>, <<" ", "8">>, <<"-", "3">>,
     <<"+", "5">>, <<"4", "p", "x">>, <<"3", ".", "5">>, <<"p", "x", "4">>,
     <<"-">>}

\* what getAttribute can find: no attribute (null), or its text
DimAttrs ==
    {[has |-> FALSE, text |-> <<>>]} \cup
      {[has |-> TRUE, text |-> t] : t \in DimTexts}

\* a value that has not been assigned, and the number x as a field value
Undefined == [type |-> "undefined", nan |-> FALSE, val |-> 0]

Number(x) == [type |-> "number", nan |-> x.nan, val |-> x.val]

\* typeof v !== "number"
NotNumber(v) == v.type # "number"

\* getDimensionAttribute that returns what parseInt gave
GetDimensionAttributeUnchecked(attr, fallback) ==
    IF attr.has THEN ParseInt(attr.text) ELSE Num(fallback)

\* getDimensionAttribute(el, attrName, fallback), attr being the result of
\* el.getAttribute(attrName)
GetDimensionAttribute(attr, fallback) ==
    LET value == IF attr.has THEN ParseInt(attr.text) ELSE Num(fallback)
    IN IF value.nan THEN Num(fallback) ELSE value

DimInit ==
    /\ heightAttr \in DimAttrs
    /\ widthAttr \in DimAttrs
    /\ iconHeight = Undefined
    /\ iconWidth = Undefined
    /\ dimCheck = "pending"

\* the element carries neither attribute
DimAtRest ==
    /\ heightAttr = [has |-> FALSE, text |-> <<>>]
    /\ widthAttr = [has |-> FALSE, text |-> <<>>]

\* initVariables, lines 76-79: both dimensions are read
DimInitVariables ==
    /\ iconHeight = Undefined
    /\ iconHeight' = Number(GetDimensionAttribute(heightAttr, DimensionFallback))
    /\ iconWidth' = Number(GetDimensionAttribute(widthAttr, DimensionFallback))
    /\ UNCHANGED <<heightAttr, widthAttr, dimCheck>>
    /\ UNCHANGED <<counterVars, todoVars, themeVars, menuVars, leafVars,
                   pairVars>>

\* hydrate(), lines 51-58: the typeof checks before insertIcon
DimTypeCheck ==
    /\ iconHeight # Undefined
    /\ dimCheck = "pending"
    /\ dimCheck' =
         IF NotNumber(iconWidth) \/ NotNumber(iconHeight) THEN "thrown"
         ELSE "passed"
    /\ UNCHANGED <<heightAttr, widthAttr, iconHeight, iconWidth>>
    /\ UNCHANGED <<counterVars, todoVars, themeVars, menuVars, leafVars,
                   pairVars>>

DimNext == DimInitVariables \/ DimTypeCheck

\* ========================================================================
\* Specifications: one per widget family, the others at rest
\* ========================================================================

Init ==
    /\ CounterInit
    /\ TodoInit
    /\ ThemeInit
    /\ MenuInit
    /\ LeafInit
    /\ PairInit
    /\ DimInit

\* the same on a page without theme attribute, dark preference or cached icons
InitAtRest ==
    /\ srcs = {"light", "dark"}
    /\ PairAtRest
    /\ DimAtRest
    /\ Init
    /\ theme = "absent"
    /\ ~prefersDark
    /\ cache = {}
    /\ dataLinks = [json |-> "array", links |-> <<>>]

\* a page whose only widget in use is the hamburger menu
InitMenu ==
    /\ srcs = {"light", "dark"}
    /\ PairAtRest
    /\ DimAtRest
    /\ Init
    /\ theme = "absent"
    /\ ~prefersDark
    /\ cache = {}

\* a page whose hamburger menu has an empty list of links
InitTheme ==
    /\ PairAtRest
    /\ DimAtRest
    /\ Init
    /\ dataLinks = [json |-> "array", links |-> <<>>]

SpecCounter == InitAtRest /\ [][CounterNext]_vars

SpecTodo == InitAtRest /\ [][TodoNext]_vars

InitToggle == InitTheme /\ srcs = {"light", "dark"}

SpecToggle == InitToggle /\ [][ToggleNext]_vars

SpecLoader == InitTheme /\ [][LoaderNext]_vars

SpecMenu == InitMenu /\ [][MenuNext]_vars

\* every asynchronous operation the loader has started completes, and the
\* microtask checkpoint is reached after every task
LoaderFairness ==
    /\ WF_vars(Notify)
    /\ SF_vars(CacheOpened)
    /\ SF_vars(MatchLightDone)
    /\ SF_vars(MatchDarkDone)
    /\ SF_vars(\E ok \in BOOLEAN : FetchLightDone(ok))
    /\ SF_vars(\E ok \in BOOLEAN : PutLightDone(ok))
    /\ SF_vars(\E ok \in BOOLEAN : FetchDarkDone(ok))
    /\ SF_vars(\E ok \in BOOLEAN : PutDarkDone(ok))

\* a loader with both source attributes
InitLive == InitToggle /\ ~prefersDark

SpecLoaderLive == InitLive /\ [][LoaderNext]_vars /\ LoaderFairness

SpecRoots == InitAtRest /\ [][RootsNext]_vars

SpecLeaf == InitAtRest /\ [][LeafNext]_vars

\* a page whose only widgets in use are the two loaders of the pair
InitPair ==
    /\ srcs = {"light", "dark"}
    /\ DimAtRest
    /\ Init
    /\ theme = "absent"
    /\ ~prefersDark
    /\ cache = {}
    /\ dataLinks = [json |-> "array", links |-> <<>>]

\* a page whose icon-theme-aware is looked at for its dimensions only
InitDim ==
    /\ srcs = {"light", "dark"}
    /\ PairAtRest
    /\ Init
    /\ theme = "absent"
    /\ ~prefersDark
    /\ cache = {}
    /\ dataLinks = [json |-> "array", links |-> <<>>]

SpecDim == InitDim /\ [][DimNext]_vars

SpecPair == InitPair /\ [][PairNext]_vars

\* every asynchronous operation an instance of the pair has started
\* completes
PairFairness ==
    \A p \in Pair :
      /\ WF_vars(PairCacheOpened(p))
      /\ WF_vars(PairMatchLightDone(p))
      /\ WF_vars(PairMatchDarkDone(p))
      /\ WF_vars(PairFetchLightDone(p))
      /\ WF_vars(PairPutLightDone(p))
      /\ WF_vars(PairFetchDarkDone(p))
      /\ WF_vars(PairPutDarkDone(p))

SpecPairLive == InitPair /\ [][PairNext]_vars /\ PairFairness

Next ==
    CounterNext \/ TodoNext \/ ToggleNext \/ LoaderNext \/ MenuNext
      \/ LeafNext \/ PairNext \/ DimNext

Spec == Init /\ [][Next]_vars

\* ========================================================================
\* Properties
\* ========================================================================

\* number shown by the todo count, and the one it showed before the last
\* operation
ShownCount == ParseInt(countText)

ShownCount0 == ParseInt(last.count0)

\* the id and text of every rendered entry, in document order
Entries(l) == [i \in 1..Len(l) |-> <<l[i].id, l[i].text>>]

\* C1: once count-total is rendered, its count attribute and its text are
\* the decimal form of (increments delivered) - (decrements delivered).
C1_DisplayedTotalIsNetSum ==
    (cConnected \/ totalAttr # <<>>) =>
        /\ totalAttr = ToString(nInc - nDec)
        /\ totalText = ToString(nInc - nDec)
        /\ count = nInc - nDec

C1_Witness ==
    /\ cConnected
    /\ nInc = 2
    /\ nDec = 5
    /\ totalText = <<"-", "3">>

\* C2: a submit whose text is non-empty after trimming appends exactly one
\* entry (the trimmed text, at the end, the entries before it untouched)
\* and raises the displayed count by exactly one, whichever submit it is.
C2_SubmitAppendsExactlyOne ==
    (last.op = "submit" /\ Trim(last.text) # <<>>) =>
        /\ Len(list) = Len(last.list0) + 1
        /\ SubSeq(Entries(list), 1, Len(last.list0)) = Entries(last.list0)
        /\ list[Len(list)].text = Trim(last.text)
        /\ last.emitted = 1
        /\ ~ShownCount.nan
        /\ ~ShownCount0.nan
        /\ ShownCount.val = ShownCount0.val + 1

C2_Witness ==
    /\ last.op = "submit"
    /\ last.text = <<" ", "a", " ">>
    /\ Len(last.list0) = 2
    /\ Len(list) = 3

\* C3: the identifiers of the entries in the list, read in submit order,
\* are strictly increasing (so no two entries share an identifier).
C3_IdsStrictlyIncreasing ==
    \A i, j \in 1..Len(list) :
        i < j => ParseInt(list[i].id).val < ParseInt(list[j].id).val

\* C4: a submit of empty or white-space-only text emits no event and leaves
\* the rendered list, todoItems and the displayed count as they were.
C4_BlankSubmitChangesNothing ==
    (last.op = "submit" /\ Trim(last.text) = <<>>) =>
        /\ last.emitted = 0
        /\ list = last.list0
        /\ todoItems = last.items0
        /\ countText = last.count0

C4_Witness ==
    /\ last.op = "submit"
    /\ last.text = <<" ", " ">>
    /\ Len(list) = 2
    /\ countText = <<"2">>

\* C5: pressing delete on the entry at some position removes exactly that
\* entry and lowers the displayed count by exactly one.
C5_PressDeleteRemovesThatEntry ==
    last.op = "press" =>
        /\ Entries(list) = Entries(RemoveAt(last.list0, last.idx))
        /\ ShownCount.val = ShownCount0.val - 1

\* C6: a todo-item-delete event whose id matches no entry leaves the list,
\* todoItems and the displayed count unchanged.
C6_DeleteUnknownIdIsNoOp ==
    (last.op = "deliver" /\ FirstIndex(last.list0, last.id) = 0) =>
        /\ list = last.list0
        /\ todoItems = last.items0
        /\ countText = last.count0

\* C7: for every connected toggle-theme exactly one of its two icons has
\* data-active "true": the sun when data-theme is "dark", the moon when it
\* is "light".
C7_OneActiveIconMatchingTheme ==
    \A tg \in Toggles :
        tgConnected[tg] =>
            /\ (sunActive[tg] = "true") # (moonActive[tg] = "true")
            /\ theme = "dark" => sunActive[tg] = "true"
            /\ theme = "light" => moonActive[tg] = "true"

\* a step that writes the theme attribute or delivers its notification
ThemeStep ==
    \/ \E tg \in Toggles, id \in {"sun", "moon"} : ToggleClick(tg, id)
    \/ Notify

\* both variants held, the instance connected, ready and up to date with
\* its notifications
LoaderSettled ==
    /\ ldConnected
    /\ LoaderState = "ready"
    /\ ~pending
    /\ iconPending = {}
    /\ iconLight = "blob"
    /\ iconDark = "blob"

\* C8: a settled instance shows exactly the variant of the current
\* data-theme, and a theme step of a ready instance starts no lookup or
\* fetch and leaves the cache alone.
C8_SettledShowsThemeVariant ==
    [][/\ LoaderSettled' => display' = theme'
       /\ (LoaderState = "ready" /\ ThemeStep) => (hyd' = hyd /\ cache' = cache)]_vars

\* C9: the loader leaves uninitialized only for resolving, with both
\* sources given leaves resolving only for ready, and a ready instance
\* stays ready through every theme step, with both retained variants, the
\* cache and all lookups untouched.
C9_ReadyNeverResolvesOnThemeChange ==
    [][/\ LoaderState = "uninitialized" =>
            LoaderState' \in {"uninitialized", "resolving"}
       /\ (srcs = {"light", "dark"} /\ LoaderState = "resolving") =>
            LoaderState' \in {"resolving", "ready"}
       /\ (LoaderState = "ready" /\ ThemeStep) =>
            /\ LoaderState' = "ready"
            /\ iconLight' = iconLight
            /\ iconDark' = iconDark
            /\ hyd' = hyd
            /\ cache' = cache]_vars

\* a ready, observing instance holding both variants and showing the dark
\* one, just after data-theme was written to "light" (record still queued)
C9_Witness ==
    /\ LoaderState = "ready"
    /\ observer = "observing"
    /\ iconLight = "blob"
    /\ iconDark = "blob"
    /\ pending
    /\ theme = "light"
    /\ currentTheme = "dark"
    /\ display = "dark"

\* C10: the variant rendered at the step that reaches ready is the one of
\* the data-theme value current at that step.
C10_ReadyRendersCurrentTheme ==
    [][(LoaderState = "resolving" /\ LoaderState' = "ready") =>
            display' = InsertIcon(theme', iconLight', iconDark')]_vars

\* C11: a connection leaves the menu closed, the icon and the panel carry
\* the same data-active whenever they exist, and a click on the icon flips
\* that value exactly once.
C11_IconClickFlipsBothOnce ==
    /\ rendered => hmIconActive = hmNavActive
    /\ hmLast.op = "connect" => hmIconActive = "false"
    /\ hmLast.op = "iconClick" =>
            hmIconActive = BoolToString(hmLast.icon0 # "true")

\* C12: after a click on a generated anchor the menu is closed: data-active
\* is "false" on the icon and on the panel, whatever it was before.
C12_LinkClickClosesMenu ==
    hmLast.op = "linkClick" =>
        /\ hmIconActive = "false"
        /\ hmNavActive = "false"

\* C13: connecting a menu whose data-links is not JSON leaves no exception
\* uncaught and renders the navigation subtree with no anchors.
C13_MalformedLinksRenderEmptyNav ==
    (hmLast.op = "connect" /\ dataLinks.json = "malformed") =>
        /\ hmErrors = hmLast.errors0
        /\ navRendered
        /\ navLinks = 0

\* a fetch or cache.put of some variant settles with a failure
FetchFailure ==
    \/ FetchLightDone(FALSE)
    \/ PutLightDone(FALSE)
    \/ FetchDarkDone(FALSE)
    \/ PutDarkDone(FALSE)

\* C14: a failed fetch (or failed store) of a variant leaves that variant
\* null and the hydrate() call goes on, to the other variant or to its
\* end; once the instance is ready and up to date with a variant missing,
\* the container is empty under the missing variant's theme and shows the
\* other variant under the other theme.
C14_FailedVariantAbsentOtherShown ==
    [][/\ FetchFailure =>
            /\ InFlight' = InFlight \/ (InFlight' = InFlight - 1 /\ hydrated')
            /\ FetchLightDone(FALSE) \/ PutLightDone(FALSE) => iconLight' = "null"
            /\ FetchDarkDone(FALSE) \/ PutDarkDone(FALSE) => iconDark' = "null"
       /\ (/\ ldConnected'
           /\ LoaderState' = "ready"
           /\ ~pending'
           /\ "null" \in {iconLight', iconDark'}) =>
                display' = InsertIcon(theme', iconLight', iconDark')]_vars

\* C16: while the instance is out of the document, none of its observers
\* is subscribed on the document element.
C16_NoWatcherAfterDisconnect ==
    ~ldConnected => watchers = 0

\* suspended calls whose own lookup of the dark variant was a hit
DarkHits == lookupHits["fetchLight"] + lookupHits["putLight"]

\* C15: a fetch of a variant is issued only by a hydrate() call whose own
\* cache lookup of that variant missed; a fetch that was stored leaves the
\* cache holding the entry of that variant, and no entry is ever removed
\* (so a later lookup of it is a hit).
C15_FetchOnlyAfterOwnMiss ==
    [][/\ hyd'["fetchLight"] > hyd["fetchLight"] =>
              lookupHits'["matchDark"] = lookupHits["matchDark"]
       /\ hyd'["fetchDark"] > hyd["fetchDark"] => DarkHits' = DarkHits
       /\ PutLightDone(TRUE) => "light" \in cache'
       /\ PutDarkDone(TRUE) => "dark" \in cache'
       /\ cache \subseteq cache']_vars

\* C17: an event of a type that a dispatch root does not switch on changes
\* nothing: the count and its rendering, the document theme, the icons'
\* active flags, the todo list, the root's item ids and the shown todo
\* count are as before, and the handlers return normally.
C17_UnknownEventChangesNothing ==
    [][(\E id \in Ids, icon \in {"sun", "moon"} : DeliverUnknown(id, <<"a">>, icon)) =>
          UNCHANGED <<count, totalAttr, totalText, theme, sunActive, moonActive,
                      list, todoItems, countText>>]_vars

\* an unknown event was just handled on a page with a non-zero count, two
\* todo entries and the dark theme chosen
C17_Witness ==
    /\ last.op = "unknown"
    /\ last.list0 = list
    /\ Len(list) = 2
    /\ count = 1
    /\ theme = "dark"
    /\ sunActive[1] = "true"

\* C19: whenever a task has returned, each icon of a connected toggle
\* carries the class "active" exactly when its data-active is "true", and
\* the text rendered by count-total is the root's count.
C19_SettledWhenDispatchReturns ==
    /\ \A tg \in Toggles : tgConnected[tg] =>
          /\ sunClass[tg] <=> sunActive[tg] = "true"
          /\ moonClass[tg] <=> moonActive[tg] = "true"
    /\ cConnected => totalText = ToString(count)

\* C18: while data-src-light or data-src-dark is missing, no hydrate() call
\* ever gets past the source check: none waits on a cache lookup, a fetch
\* or a store, the container stays empty, no observer is created or
\* subscribed, the instance never becomes ready, and every call that has
\* got its cache has ended by throwing.
C18_MissingSourceFailsBeforeLookup ==
    srcs # {"light", "dark"} =>
        /\ \A a \in Awaits \ {"open"} : hyd[a] = 0
        /\ display = "empty"
        /\ observer = "null"
        /\ watchers = 0
        /\ ~hydrated
        /\ (currentTheme # "undefined" /\ hyd["open"] = 0) => rejected

\* an instance without data-src-light is in the document and its
\* hydration has failed
C18_Witness ==
    /\ srcs = {"dark"}
    /\ ldConnected
    /\ hyd["open"] = 0
    /\ rejected
    /\ "dark" \in cache

\* C20: a notification for a write that left data-theme at its value, to
\* an instance showing the variant of that theme, changes nothing shown:
\* the same variant in the same <img> element, the same icon flags.
C20_SameValueWriteChangesNothing ==
    [][(/\ Notify
        /\ pending
        /\ rewrite
        /\ currentTheme = theme
        /\ display = InsertIcon(theme, iconLight, iconDark)) =>
            /\ display' = display
            /\ imgSerial' = imgSerial
            /\ sunActive' = sunActive
            /\ moonActive' = moonActive]_vars

\* a toggle-theme or the icon-theme-aware is put into the document
ComponentConnects == (\E tg \in Toggles : ToggleConnect(tg)) \/ LoaderConnect

\* C21: a connecting component writes data-theme only while it is absent,
\* and then "dark" if the platform prefers dark and "light" otherwise; a
\* present value is kept; once present the attribute never becomes absent,
\* and it is present whenever a component is or has been connected.
C21_ThemeDefaultOnlyWhenAbsent ==
    [][/\ ComponentConnects =>
            theme' = IF theme = "absent"
                     THEN (IF prefersDark THEN "dark" ELSE "light")
                     ELSE theme
       /\ theme # "absent" => theme' # "absent"
       /\ (ldConnected' \/ currentTheme' # "undefined"
              \/ \E tg \in Toggles : sunActive'[tg] # "absent") =>
            theme' # "absent"]_vars

\* the loader was connected on a page whose data-theme was "light" although
\* the platform prefers dark, and no toggle has ever been connected: the
\* present value was kept
C21_Witness ==
    /\ ldConnected
    /\ prefersDark
    /\ theme = "light"
    /\ currentTheme = "light"
    /\ \A tg \in Toggles : sunActive[tg] = "absent"

\* C22: every emitted event is handled by exactly one root, once: a
\* todo-item-delete dispatched by a pressed entry finds the root listening
\* on that entry, and every todo-input-submit emitted by a submit has added
\* exactly one entry.
C22_EachEventHandledOnce ==
    /\ last.op = "press" => last.list0[last.idx].listener
    /\ last.op = "submit" => Len(list) = Len(last.list0) + last.emitted

\* C23: however often the menu was taken out of and put back into the
\* document, hamburger-icon carries at most one click listener of the menu
\* and a click on the icon of a closed menu opens icon and panel.
C23_IconListenersDoNotAccumulate ==
    /\ iconListeners <= 1
    /\ (hmLast.op = "iconClick" /\ hmLast.icon0 = "false") =>
          /\ hmIconActive = "true"
          /\ hmNavActive = "true"

\* C24: while the todo component is in the document, the displayed count
\* is a number, is not negative, and equals both the number of todo-item
\* elements in the list and the length of the root's todoItems.
C24_CountMatchesListAndRecord ==
    tdConnected =>
        /\ ~ShownCount.nan
        /\ ShownCount.val >= 0
        /\ ShownCount.val = Len(list)
        /\ ShownCount.val = Len(todoItems)

\* C25: a completion of a lookup, fetch or store of an instance that is out
\* of the document applies nothing to it: its container is left as it is
\* and no observer is created or subscribed.
C25_NoResultAppliedWhenDestroyed ==
    [][(~ldConnected /\ ~ldConnected' /\ hyd' # hyd) =>
          /\ display' = display
          /\ watchers' = watchers
          /\ observer' = observer]_vars

\* C26: putting a ready instance back into the document starts no hydration
\* and keeps both retained variants; at most one hydrate() call is ever in
\* flight and at most one observer of the instance is subscribed.
C26_ReattachedReadyStaysReady ==
    [][/\ (LoaderState = "ready" /\ ~ldConnected /\ ldConnected') =>
            /\ hyd' = hyd
            /\ iconLight' = iconLight
            /\ iconDark' = iconDark
       /\ InFlight' <= 1
       /\ watchers' <= 1]_vars

C28_ThemeWriteReachesReadyLoaders ==
    /\ [][\A tg \in Toggles :
            /\ ToggleClick(tg, "moon") => theme' = "dark"
            /\ ToggleClick(tg, "sun") => theme' = "light"
            /\ (\E id \in {"sun", "moon"} : ToggleClick(tg, id)) =>
                  /\ UNCHANGED <<display, currentTheme, iconLight, iconDark, hyd>>
                  /\ (ldConnected /\ LoaderState = "ready") => pending']_vars
    /\ (ldConnected /\ LoaderState = "ready" /\ pending) ~>
            (~pending /\ display = InsertIcon(theme, iconLight, iconDark))

\* the moon icon was just clicked while a connected, ready instance holding
\* both variants shows the light one: the record is queued
C28_Witness ==
    /\ ldConnected
    /\ LoaderState = "ready"
    /\ pending
    /\ ~rewrite
    /\ theme = "dark"
    /\ sunActive[1] = "true"
    /\ iconDark = "blob"
    /\ display = "light"

\* C29: once the queued records are delivered (and right after the initial
\* render), the inner element of icon-sun, icon-moon, hamburger-icon and
\* hamburger-nav carries the class "active" exactly when the component's
\* data-active is "true".
C29_ActiveClassMirrorsDataActive ==
    /\ iconPending = {} =>
          \A tg \in Toggles : tgConnected[tg] =>
              /\ sunClass[tg] <=> sunActive[tg] = "true"
              /\ moonClass[tg] <=> moonActive[tg] = "true"
    /\ (rendered /\ ~hmPending) =>
          /\ hmIconClass <=> hmIconActive = "true"
          /\ hmNavClass <=> hmNavActive = "true"

\* C30: whenever no record is queued, the icons of every connected toggle
\* show the document theme: the sun is active exactly when data-theme is
\* "dark" and the moon exactly when it is "light", whichever toggle was
\* clicked.
C30_EveryToggleFollowsTheme ==
    (iconPending = {} /\ ~pending) =>
        \A tg \in Toggles : tgConnected[tg] =>
            /\ sunActive[tg] = "true" <=> theme = "dark"
            /\ moonActive[tg] = "true" <=> theme = "light"

\* C31: a click on a leaf control (counter-increment, counter-decrement,
\* icon-sun, icon-moon, the delete button of a todo-item) adds exactly one
\* event to what the leaf has dispatched, of the leaf's kind and with its
\* fixed payload (none, none, {id: "sun"}, {id: "moon"}, {id: the item's
\* id}); the click changes nothing else, in the leaf or in any root; so k
\* clicks leave k events, none merged or dropped
C31_LeafClickEmitsOne ==
    [][\A l \in Leaves :
         leafClicks'[l] # leafClicks[l] =>
           /\ leafEvents'[l] = Append(leafEvents[l], LeafEvent(l))
           /\ Len(leafEvents'[l]) = leafClicks'[l]
           /\ \A m \in Leaves \ {l} : leafEvents'[m] = leafEvents[m]
           /\ UNCHANGED <<leafConnected, buttonListeners, itemId>>
           /\ UNCHANGED <<counterVars, todoVars, themeVars, menuVars>>
           /\ UNCHANGED <<pairVars, dimVars>>]_vars

\* every leaf has been clicked as often as the bound allows, the todo-item
\* carrying the id "1", and the last click came while the leaf was in the
\* document
C31_Witness ==
    /\ \A l \in Leaves :
         /\ leafClicks[l] = MaxLeafClicks
         /\ Len(leafEvents[l]) = MaxLeafClicks
         /\ leafConnected[l]
    /\ itemId = <<"1">>
    /\ leafEvents["todo-item"][MaxLeafClicks].detail = <<(<<"1">>)>>
    /\ leafEvents["icon-moon"][1].detail = <<"moon">>

\* C32: a theme click sets, it does not flip: whatever the state before,
\* after toggle-theme has handled clicked-sun the document theme is "light",
\* its moon is active and its sun inactive, and after clicked-moon the theme
\* is "dark", its sun active and its moon inactive; so handling the event
\* that was handled last once more leaves theme and icons as they are
C32_ThemeClickSets ==
    [][\A tg \in Toggles :
         /\ ToggleClick(tg, "sun") =>
              /\ theme' = "light"
              /\ moonActive'[tg] = "true"
              /\ sunActive'[tg] = "false"
         /\ ToggleClick(tg, "moon") =>
              /\ theme' = "dark"
              /\ sunActive'[tg] = "true"
              /\ moonActive'[tg] = "false"
         /\ (/\ ToggleClick(tg, "sun")
             /\ theme = "light"
             /\ moonActive[tg] = "true"
             /\ sunActive[tg] = "false") =>
              UNCHANGED <<theme, moonActive, sunActive>>
         /\ (/\ ToggleClick(tg, "moon")
             /\ theme = "dark"
             /\ sunActive[tg] = "true"
             /\ moonActive[tg] = "false") =>
              UNCHANGED <<theme, moonActive, sunActive>>]_vars

\* toggle 1 has just handled clicked-sun (its record is still queued) in a
\* document that was dark before (its #icon-sun still carries "active"),
\* while toggle 2 still shows the dark arrangement
C32_Witness ==
    /\ iconPending = {1}
    /\ theme = "light"
    /\ moonActive[1] = "true"
    /\ sunActive[1] = "false"
    /\ sunClass[1]
    /\ tgConnected[2]
    /\ sunActive[2] = "true"

\* both instances of the pair have run hydrate() to its end
PairReady == \A p \in Pair : pairAt[p] = "ready"

\* the payload instance p holds for the variant stored under URI u
PairHeld(p, u) == IF u = "light" THEN pairLight[p] ELSE pairDark[p]

\* C33: two icon-theme-aware instances that share cache name and source
\* URIs, resolving concurrently without any lock: under every interleaving
\* of their lookups, fetches and stores (each of which completes), once both
\* are connected both reach ready; then each holds a payload for every
\* reachable variant and the cache has exactly one entry under each such
\* URI; the cache never has two entries under one URI, a store leaves the
\* storing instance's entry as the only one (last write wins), and an entry
\* once written is never removed
C33_SharedCacheRaces ==
    /\ [](\A u \in URIs : Len(entries[u]) <= 1)
    /\ [](PairReady =>
            \A u \in reachable :
              /\ Len(entries[u]) = 1
              /\ \A p \in Pair : PairHeld(p, u) = "blob")
    /\ [][\A u \in URIs :
            /\ entries[u] # <<>> => entries'[u] # <<>>
            /\ entries'[u] # entries[u] =>
                 \E p \in Pair :
                   /\ pairAt[p] = (IF u = "light" THEN "putLight" ELSE "putDark")
                   /\ pairAt'[p] # pairAt[p]
                   /\ entries'[u] = <<p>>]_vars
    /\ ((\A p \in Pair : pairAt[p] # "idle") ~> PairReady)

\* instance 2 has stored the dark variant it fetched, and instance 1, whose
\* lookup missed as well, is about to store its own copy over it, after
\* both have stored the light variant
C33_Witness ==
    /\ pairAt[1] = "putDark"
    /\ entries["dark"] = <<2>>
    /\ pairAt[2] = "ready"
    /\ entries["light"] # <<>>
    /\ entries["light"] # <<0>>
    /\ pairLight[1] = "blob"
    /\ pairLight[2] = "blob"

\* what parseInt(text, 10) is in JavaScript for each text of DimTexts:
\* whether it is an integer, and which
DimCases ==
    {[text |-> <<>>, parses |-> FALSE, int |-> 0],
     [text |-> <<"0">>, parses |-> TRUE, int |-> 0],
     [text |-> <<"7">>, parses |-> TRUE, int |-> 7],
     [text |-> <<"1", "2">>, parses |-> TRUE, int |-> 12],
     [text |-> <<" ", "8">>, parses |-> TRUE, int |-> 8],
     [text |-> <<"-", "3">>, parses |-> TRUE, int |-> 0 - 3],
     [text |-> <<"+", "5">>, parses |-> TRUE, int |-> 5],
     [text |-> <<"4", "p", "x">>, parses |-> TRUE, int |-> 4],
     [text |-> <<"3", ".", "5">>, parses |-> TRUE, int |-> 3],
     [text |-> <<"p", "x", "4">>, parses |-> FALSE, int |-> 0],
     [text |-> <<"-">>, parses |-> FALSE, int |-> 0]}

\* the dimension the claim states for an attribute
DimExpected(attr) ==
    LET c == CHOOSE c \in DimCases : c.text = attr.text
    IN IF attr.has /\ c.parses THEN c.int ELSE DimensionFallback

\* C34: getDimensionAttribute returns the fallback (64 for data-height and
\* data-width) when the attribute is absent or does not parse to an integer
\* and the parsed integer otherwise; the result is always a number (never
\* NaN, never undefined), so the typeof checks of hydrate() on iconWidth and
\* iconHeight never throw
C34_DimensionParsing ==
    /\ iconHeight # Undefined =>
         /\ iconHeight =
              [type |-> "number", nan |-> FALSE, val |-> DimExpected(heightAttr)]
         /\ iconWidth =
              [type |-> "number", nan |-> FALSE, val |-> DimExpected(widthAttr)]
    /\ dimCheck # "thrown"
    /\ \A a \in DimAttrs :
         GetDimensionAttribute(a, DimensionFallback) = Num(DimExpected(a))

\* hydrate() has passed its typeof checks on an element with data-height
\* "4px" (parsed as 4) and data-width "px4" (no integer: the fallback)
C34_Witness ==
    /\ dimCheck = "passed"
    /\ heightAttr = [has |-> TRUE, text |-> <<"4", "p", "x">>]
    /\ widthAttr = [has |-> TRUE, text |-> <<"p", "x", "4">>]
    /\ iconHeight.val = 4
    /\ iconWidth.val = DimensionFallback

====
